---- MODULE Spec2Model ----
(***************************************************************************)
(* Model of src/data.py: Instance (row parser and character-scanning       *)
(* tokenizer) and Data (file loader and label arrays).                     *)
(*                                                                         *)
(* A Python string is a sequence of characters; a character is a TLA+      *)
(* string of one symbol.  The three non-ASCII characters of the source are *)
(* written by their code points: "u201D" (right double quote), "u201C"     *)
(* (left double quote) and "u2026" (horizontal ellipsis).  Python indices  *)
(* are 0-based, so character i of s is s[i + 1].                           *)
(***************************************************************************)
EXTENDS Integers, Sequences, FiniteSets, TLC

VARIABLES
    \* Instance.__init__: arguments, position and attributes
    row, test, pc,
    hit_id, sentence, offset, target_chars, annotators,
    tokens, target, label, difficult,
    \* Instance.tokenize: loop variables
    i, start,
    \* Data: attributes
    instances, y, y_prob, is_test,
    \* Data.load_data: position, remaining datasets, lines of the open
    \* dataset, loop cursor
    lpc, datasets, lines, cur,
    \* history of the running load_data call: attribute values at entry,
    \* len(instances) when the last dataset was read (at entry, before any
    \* is read), number of calls made
    instances0, y0, y_prob0, file_base, calls

instVars == <<row, test, pc, hit_id, sentence, offset, target_chars,
              annotators, tokens, target, label, difficult, i, start>>
dataVars == <<instances, y, y_prob, is_test, lpc, datasets, lines, cur,
              instances0, y0, y_prob0, file_base, calls>>
vars == <<instVars, dataVars>>

(***************************************************************************)
(* Bounds.                                                                 *)
(***************************************************************************)
MaxLen == 3          \* longest enumerated sentence
OffSlack == 1        \* offsets range over -OffSlack .. MaxLen + OffSlack
MaxFiles == 2        \* datasets per load_data call
MaxLines == 2        \* lines per dataset
MaxCalls == 2        \* load_data calls per Data object (constructor's included)
MaxInstances == 5    \* lines one Data object reads, each a possible Instance

(***************************************************************************)
(* Characters and strings.                                                 *)
(***************************************************************************)
None == <<>>

\* str.lower() on one character, for the letters the inputs use
LowerTable == [c \in {"A", "B", "T"} |->
                 CASE c = "A" -> "a" [] c = "B" -> "b" [] c = "T" -> "t"]

LowerChar(c) == IF c \in DOMAIN LowerTable THEN LowerTable[c] ELSE c

lower(s) == [k \in 1..Len(s) |-> LowerChar(s[k])]

Min(a, b) == IF a < b THEN a ELSE b

\* s[a:b] for 0 <= a, with Python's clamping of the bounds to len(s)
Slice(s, a, b) == SubSeq(s, Min(a, Len(s)) + 1, Min(b, Len(s)))

\* int(field): the decimal strings of a bounded range parse, others raise
IntDomain == -(OffSlack + 1) .. 20
IsInt(f) == \E n \in IntDomain : ToString(n) = f
int(f) == CHOOSE n \in IntDomain : ToString(n) = f

\* float(field), in hundredths
FloatTable == [f \in {"0", "1", "0.0", "0.33", "1.0"} |->
                 CASE f = "0" -> 0 [] f = "0.0" -> 0 [] f = "0.33" -> 33
                   [] f = "1" -> 100 [] f = "1.0" -> 100]
IsFloat(f) == f \in DOMAIN FloatTable
float(f) == FloatTable[f]

(***************************************************************************)
(* Instance.tokenize                                                       *)
(***************************************************************************)
endings == {"?", "u201D", "\"", "!", ")", "."}

breakers == endings \cup {",", ":", ";", "(", ")", "", "u2026", "[", "]"}

quotes == {"\"", "u201C"}

\* DictSet without the lookup: every recorded index is appended
DictSetDuplicating(keys, k) == Append(keys, k)

\* target[len(tokens)] = True on a dict kept as its list of keys
DictSet(keys, k) ==
    IF \E n \in 1..Len(keys) : keys[n] = k THEN keys ELSE Append(keys, k)

\* Record with the end offset included
RecordInclusive(off, toks, tgt, ii) ==
    IF off[1] <= ii /\ ii <= off[2] THEN DictSet(tgt, Len(toks)) ELSE tgt

\* lines 60-61
Record(off, toks, tgt, ii) ==
    IF off[1] <= ii /\ ii < off[2] THEN DictSet(tgt, Len(toks)) ELSE tgt

\* BranchCuts with the space branch flushing the pending text even when
\* it is empty
BranchCutsAlwaysFlushing(s, st, ii) ==
    LET c == s[ii + 1] IN
    IF c = " " THEN
        << <<st, ii>> >>
    ELSE IF c = "'" THEN
        << <<st, ii>> >>
    ELSE IF c \in breakers THEN
        (IF ii - st > 0 THEN << <<st, ii>> >> ELSE <<>>) \o << <<ii, ii + 1>> >>
    ELSE IF c \in quotes THEN
        IF ii - st >= 0 THEN << <<ii, ii + 1>> >> ELSE <<>>
    ELSE <<>>

\* lines 62-77: the slices <<a, b>> of the sentence that iteration ii
\* appends (lowercased) to tokens, in order
BranchCuts(s, st, ii) ==
    LET c == s[ii + 1] IN
    IF c = " " THEN
        IF Slice(s, st, ii) # <<>> THEN << <<st, ii>> >> ELSE <<>>
    ELSE IF c = "'" THEN
        << <<st, ii>> >>
    ELSE IF c \in breakers THEN
        (IF ii - st > 0 THEN << <<st, ii>> >> ELSE <<>>) \o << <<ii, ii + 1>> >>
    ELSE IF c \in quotes THEN
        IF ii - st >= 0 THEN << <<ii, ii + 1>> >> ELSE <<>>
    ELSE <<>>

\* BranchStart with the apostrophe branch restarting after the apostrophe
BranchStartAfterApostrophe(s, st, ii) ==
    LET c == s[ii + 1] IN
    IF c = " " THEN ii + 1
    ELSE IF c = "'" THEN ii + 1
    ELSE IF c \in breakers THEN ii + 1
    ELSE IF c \in quotes THEN ii + 1
    ELSE st

\* lines 65, 68, 73, 77: start after the branch of iteration ii
BranchStart(s, st, ii) ==
    LET c == s[ii + 1] IN
    IF c = " " THEN ii + 1
    ELSE IF c = "'" THEN ii
    ELSE IF c \in breakers THEN ii + 1
    ELSE IF c \in quotes THEN ii + 1
    ELSE st

\* lines 78-79: the trailing flush
TailCuts(s, st, ii) ==
    IF ii = Len(s) - 1 /\ s[ii + 1] \notin endings
    THEN << <<BranchStart(s, st, ii), Len(s)>> >>
    ELSE <<>>

IterCuts(s, st, ii) == BranchCuts(s, st, ii) \o TailCuts(s, st, ii)

\* tokens.append(self.sentence[a:b].lower()) for each cut
AppendCuts(s, toks, cuts) ==
    toks \o [n \in 1..Len(cuts) |-> lower(Slice(s, cuts[n][1], cuts[n][2]))]

\* one iteration of the for loop, lines 59-79
Iterate(s, off, st, ii) ==
    [tokens |-> AppendCuts(s, st.tokens, IterCuts(s, st.start, ii)),
     target |-> Record(off, st.tokens, st.target, ii),
     start  |-> BranchStart(s, st.start, ii)]

RECURSIVE Loop(_, _, _, _)
Loop(s, off, st, ii) ==
    IF ii >= Len(s) THEN st ELSE Loop(s, off, Iterate(s, off, st, ii), ii + 1)

\* the whole call: <<tokens, list(target.keys())>>
tokenize(s, off) ==
    LET st == Loop(s, off, [tokens |-> <<>>, target |-> <<>>, start |-> 0], 0)
    IN  <<st.tokens, st.target>>

\* list.sort() on a list of integers
RECURSIVE sort(_)
sort(l) ==
    IF l = <<>> THEN <<>>
    ELSE LET m == CHOOSE n \in 1..Len(l) : \A k \in 1..Len(l) : l[n] <= l[k]
         IN  <<l[m]>> \o sort(SubSeq(l, 1, m - 1) \o SubSeq(l, m + 1, Len(l)))

(***************************************************************************)
(* Instance.__init__ as a function of its arguments: the Instance built,   *)
(* or the exception raised.                                                *)
(***************************************************************************)
\* lines 25-29 raise: a missing field, or a non-integer offset or count
HeadError(r) ==
    IF Len(r) < 3 THEN "IndexError"
    ELSE IF ~IsInt(r[3]) THEN "ValueError"
    ELSE IF Len(r) < 4 THEN "IndexError"
    ELSE IF ~IsInt(r[4]) THEN "ValueError"
    ELSE IF Len(r) < 6 THEN "IndexError"
    ELSE IF ~IsInt(r[6]) THEN "ValueError"
    ELSE IF Len(r) < 7 THEN "IndexError"
    ELSE IF ~IsInt(r[7]) THEN "ValueError"
    ELSE ""

\* line 33 raises: a missing field or a non-numeric label
Line33Error(r) ==
    IF Len(r) < 10 THEN "IndexError"
    ELSE IF ~IsInt(r[10]) THEN "ValueError"
    ELSE IF Len(r) < 11 THEN "IndexError"
    ELSE IF ~IsFloat(r[11]) THEN "ValueError"
    ELSE ""

\* line 34 raises: a non-integer count
Line34Error(r) ==
    IF ~IsInt(r[8]) \/ ~IsInt(r[9]) THEN "ValueError" ELSE ""

\* lines 32-34 raise
LabelError(r, t) ==
    IF t THEN ""
    ELSE IF Line33Error(r) # "" THEN Line33Error(r)
    ELSE Line34Error(r)

InitError(r, t) == IF HeadError(r) # "" THEN HeadError(r) ELSE LabelError(r, t)

Instance(r, t) ==
    LET off == <<int(r[3]), int(r[4])>>
        tt  == tokenize(r[2], off)
    IN  [hit_id |-> r[1], sentence |-> r[2], offset |-> off,
         target_chars |-> r[5], annotators |-> <<int(r[6]), int(r[7])>>,
         tokens |-> tt[1], target |-> sort(tt[2]),
         label |-> IF t THEN None ELSE <<int(r[10]), float(r[11])>>,
         difficult |-> IF t THEN None ELSE <<int(r[8]), int(r[9])>>]

(***************************************************************************)
(* Inputs.                                                                 *)
(***************************************************************************)
\* one character of each class the scan tells apart: letters (one of them
\* upper case), space, apostrophe, a sentence-ending mark, another
\* token-breaking mark, the left double quote
Alphabet == {"A", "b", " ", "'", ".", ",", "u201C"}

SeqsUpTo(S, n) == UNION {[1..m -> S] : m \in 0..n}

Sentences == SeqsUpTo(Alphabet, MaxLen)

Offsets == -OffSlack .. MaxLen + OffSlack

LabeledRow(s, a, b) ==
    <<"H1", s, ToString(a), ToString(b), "t", "5", "2", "1", "0", "1", "0.33">>

\* "The cat's toy."
CatSentence ==
    <<"T", "h", "e", " ", "c", "a", "t", "'", "s", " ", "t", "o", "y", ".">>

CatRow == LabeledRow(CatSentence, 4, 9)

SampleSentence == <<"A", "'", "b", ".">>

TestRow == <<"H2", SampleSentence, "0", "1", "t", "5", "2">>

BadOffsetRow ==
    <<"H3", SampleSentence, "abc", "1", "t", "5", "2", "1", "0", "1", "0.33">>

BadLabelRow ==
    <<"H4", SampleSentence, "0", "1", "t", "5", "2", "1", "0", "1", "x">>

\* the <<row, test>> argument pairs of Instance.__init__
Arguments ==
    {<<LabeledRow(s, a, b), FALSE>> : s \in Sentences, a \in Offsets, b \in Offsets}
    \cup ({CatRow, TestRow, BadOffsetRow, BadLabelRow} \X BOOLEAN)

(***************************************************************************)
(* Instance.__init__, one step per loop iteration of tokenize.             *)
(***************************************************************************)
InstanceInit ==
    /\ \E arg \in Arguments : row = arg[1] /\ test = arg[2]
    /\ pc = "init"
    /\ hit_id = "" /\ target_chars = ""
    /\ sentence = None /\ offset = None /\ annotators = None
    /\ tokens = None /\ target = None /\ label = None /\ difficult = None
    /\ i = 0 /\ start = 0

\* lines 25-29, then lines 55-58 of the tokenize call of line 30
Begin ==
    /\ pc = "init"
    /\ HeadError(row) = ""
    /\ hit_id' = row[1]
    /\ sentence' = row[2]
    /\ offset' = <<int(row[3]), int(row[4])>>
    /\ target_chars' = row[5]
    /\ annotators' = <<int(row[6]), int(row[7])>>
    /\ tokens' = <<>> /\ target' = <<>> /\ start' = 0 /\ i' = 0
    /\ pc' = "tokenize"
    /\ UNCHANGED <<row, test, label, difficult>>

\* lines 25-29 raising
BeginRaise ==
    /\ pc = "init"
    /\ HeadError(row) # ""
    /\ pc' = HeadError(row)
    /\ UNCHANGED <<row, test, hit_id, sentence, offset, target_chars,
                   annotators, tokens, target, label, difficult, i, start>>

\* lines 59-79: one iteration
Scan ==
    /\ pc = "tokenize"
    /\ i < Len(sentence)
    /\ LET st == Iterate(sentence, offset,
                         [tokens |-> tokens, target |-> target, start |-> start], i)
       IN  /\ tokens' = st.tokens
           /\ target' = st.target
           /\ start' = st.start
    /\ i' = i + 1
    /\ UNCHANGED <<row, test, pc, hit_id, sentence, offset, target_chars,
                   annotators, label, difficult>>

\* line 80, the rest of line 30, lines 31-37
Finish ==
    /\ pc = "tokenize"
    /\ i = Len(sentence)
    /\ LabelError(row, test) = ""
    /\ target' = sort(target)
    /\ label' = IF test THEN None ELSE <<int(row[10]), float(row[11])>>
    /\ difficult' = IF test THEN None ELSE <<int(row[8]), int(row[9])>>
    /\ pc' = "done"
    /\ UNCHANGED <<row, test, hit_id, sentence, offset, target_chars,
                   annotators, tokens, i, start>>

\* lines 30-34 with line 33 or 34 raising
FinishRaise ==
    /\ pc = "tokenize"
    /\ i = Len(sentence)
    /\ LabelError(row, test) # ""
    /\ target' = sort(target)
    /\ label' = IF Line33Error(row) = ""
                THEN <<int(row[10]), float(row[11])>> ELSE label
    /\ pc' = LabelError(row, test)
    /\ UNCHANGED <<row, test, hit_id, sentence, offset, target_chars,
                   annotators, tokens, difficult, i, start>>

(***************************************************************************)
(* Data.                                                                   *)
(***************************************************************************)
GoodRow1 == LabeledRow(SampleSentence, 0, 3)

GoodRow0 ==
    <<"H5", <<"b", " ", "A">>, "2", "3", "t", "5", "2", "0", "0", "0", "0.0">>

\* ten fields
ShortRow == <<"H6", SampleSentence, "0", "1", "t", "5", "2", "1", "0", "1">>

\* fp.read().splitlines(), each line split on TAB: what a dataset can hold
Lines == {GoodRow1, GoodRow0, ShortRow, BadOffsetRow, BadLabelRow, TestRow}

Files == SeqsUpTo(Lines, MaxLines)

Errors == {"AssertionError", "ValueError", "IndexError", "IOError"}

\* FieldCountOk accepting longer lines
FieldCountAtLeast(line, t) == IF ~t THEN Len(line) >= 11 ELSE Len(line) >= 7

\* lines 99-102
FieldCountOk(line, t) == IF ~t THEN Len(line) = 11 ELSE Len(line) = 7

\* LabelArrays with y_prob read from the binary label
LabelArraysBinaryTwice(insts) ==
    [y      |-> [n \in 1..Len(insts) |-> insts[n].label[1]],
     y_prob |-> [n \in 1..Len(insts) |-> insts[n].label[1]]]

\* lines 107-108
LabelArrays(insts) ==
    [y      |-> [n \in 1..Len(insts) |-> insts[n].label[1]],
     y_prob |-> [n \in 1..Len(insts) |-> insts[n].label[2]]]

DataIdle ==
    /\ instances = <<>> /\ y = <<>> /\ y_prob = <<>> /\ is_test = FALSE
    /\ lpc = "new" /\ datasets = 0 /\ lines = <<>> /\ cur = 0
    /\ instances0 = <<>> /\ y0 = <<>> /\ y_prob0 = <<>>
    /\ file_base = 0 /\ calls = 0

\* Data.__init__, lines 87-91, up to the entry of load_data
New ==
    /\ lpc = "new"
    /\ instances' = <<>> /\ y' = <<>> /\ y_prob' = <<>>
    /\ is_test' \in BOOLEAN
    /\ datasets' \in 0..MaxFiles
    /\ instances0' = <<>> /\ y0' = <<>> /\ y_prob0' = <<>>
    /\ lines' = <<>> /\ cur' = 0 /\ file_base' = 0
    /\ calls' = 1
    /\ lpc' = "open"

\* a later call of load_data on the object, which exists once its
\* constructor has returned
Call ==
    /\ lpc = "returned" \/ (lpc \in Errors /\ calls >= 2)
    /\ calls < MaxCalls
    /\ datasets' \in 0..MaxFiles
    /\ instances0' = instances /\ y0' = y /\ y_prob0' = y_prob
    /\ lines' = <<>> /\ cur' = 0 /\ file_base' = Len(instances)
    /\ calls' = calls + 1
    /\ lpc' = "open"
    /\ UNCHANGED <<instances, y, y_prob, is_test>>

\* lines 94-96: the next dataset is read (one whose lines fit the bound)
Open ==
    /\ lpc = "open"
    /\ datasets > 0
    /\ lines' \in Files
    /\ Len(instances) + Len(lines') <= MaxInstances
    /\ datasets' = datasets - 1
    /\ cur' = 0
    /\ file_base' = Len(instances)
    /\ lpc' = "check"
    /\ UNCHANGED <<instances, y, y_prob, is_test, instances0, y0, y_prob0, calls>>

\* line 95 raising: the dataset cannot be opened
OpenRaise ==
    /\ lpc = "open"
    /\ datasets > 0
    /\ lpc' = "IOError"
    /\ UNCHANGED <<instances, y, y_prob, is_test, datasets, lines, cur,
                   instances0, y0, y_prob0, file_base, calls>>

\* lines 98-102: one line passes the assertion
Check ==
    /\ lpc = "check"
    /\ cur < Len(lines)
    /\ FieldCountOk(lines[cur + 1], is_test)
    /\ cur' = cur + 1
    /\ UNCHANGED <<instances, y, y_prob, is_test, lpc, datasets, lines,
                   instances0, y0, y_prob0, file_base, calls>>

\* lines 98-102: the assertion fails
CheckRaise ==
    /\ lpc = "check"
    /\ cur < Len(lines)
    /\ ~FieldCountOk(lines[cur + 1], is_test)
    /\ lpc' = "AssertionError"
    /\ UNCHANGED <<instances, y, y_prob, is_test, datasets, lines, cur,
                   instances0, y0, y_prob0, file_base, calls>>

\* line 98 exhausted, line 104 entered
CheckDone ==
    /\ lpc = "check"
    /\ cur = Len(lines)
    /\ cur' = 0
    /\ lpc' = "create"
    /\ UNCHANGED <<instances, y, y_prob, is_test, datasets, lines,
                   instances0, y0, y_prob0, file_base, calls>>

\* lines 104-105: one Instance is built and appended
Create ==
    /\ lpc = "create"
    /\ cur < Len(lines)
    /\ InitError(lines[cur + 1], is_test) = ""
    /\ instances' = Append(instances, Instance(lines[cur + 1], is_test))
    /\ cur' = cur + 1
    /\ UNCHANGED <<y, y_prob, is_test, lpc, datasets, lines,
                   instances0, y0, y_prob0, file_base, calls>>

\* line 105: Instance.__init__ raises
CreateRaise ==
    /\ lpc = "create"
    /\ cur < Len(lines)
    /\ InitError(lines[cur + 1], is_test) # ""
    /\ lpc' = InitError(lines[cur + 1], is_test)
    /\ UNCHANGED <<instances, y, y_prob, is_test, datasets, lines, cur,
                   instances0, y0, y_prob0, file_base, calls>>

\* CreateDone with lines 106-108 inside the loop over the datasets
CreateDoneWithLabels ==
    /\ lpc = "create"
    /\ cur = Len(lines)
    /\ y' = IF ~is_test THEN LabelArrays(instances).y ELSE y
    /\ y_prob' = IF ~is_test THEN LabelArrays(instances).y_prob ELSE y_prob
    /\ lpc' = "open"
    /\ UNCHANGED <<instances, is_test, datasets, lines, cur,
                   instances0, y0, y_prob0, file_base, calls>>

\* line 104 exhausted, back to line 94
CreateDone ==
    /\ lpc = "create"
    /\ cur = Len(lines)
    /\ lpc' = "open"
    /\ UNCHANGED <<instances, y, y_prob, is_test, datasets, lines, cur,
                   instances0, y0, y_prob0, file_base, calls>>

\* line 94 exhausted, lines 106-108, return
Return ==
    /\ lpc = "open"
    /\ datasets = 0
    /\ y' = IF ~is_test THEN LabelArrays(instances).y ELSE y
    /\ y_prob' = IF ~is_test THEN LabelArrays(instances).y_prob ELSE y_prob
    /\ lpc' = "returned"
    /\ UNCHANGED <<instances, is_test, datasets, lines, cur,
                   instances0, y0, y_prob0, file_base, calls>>

(***************************************************************************)
(* Specifications: the construction of one Instance, and the life of one   *)
(* Data object.                                                            *)
(***************************************************************************)
Init == InstanceInit /\ DataIdle

Next ==
    \/ Begin /\ UNCHANGED dataVars
    \/ BeginRaise /\ UNCHANGED dataVars
    \/ Scan /\ UNCHANGED dataVars
    \/ Finish /\ UNCHANGED dataVars
    \/ FinishRaise /\ UNCHANGED dataVars

Spec == Init /\ [][Next]_vars

InstanceIdle ==
    /\ row = <<>> /\ test = FALSE /\ pc = "idle"
    /\ hit_id = "" /\ target_chars = ""
    /\ sentence = None /\ offset = None /\ annotators = None
    /\ tokens = None /\ target = None /\ label = None /\ difficult = None
    /\ i = 0 /\ start = 0

InitLoad == InstanceIdle /\ DataIdle

NextLoad ==
    \/ New /\ UNCHANGED instVars
    \/ Call /\ UNCHANGED instVars
    \/ Open /\ UNCHANGED instVars
    \/ OpenRaise /\ UNCHANGED instVars
    \/ Check /\ UNCHANGED instVars
    \/ CheckRaise /\ UNCHANGED instVars
    \/ CheckDone /\ UNCHANGED instVars
    \/ Create /\ UNCHANGED instVars
    \/ CreateRaise /\ UNCHANGED instVars
    \/ CreateDone /\ UNCHANGED instVars
    \/ Return /\ UNCHANGED instVars

SpecLoad == InitLoad /\ [][NextLoad]_vars

(***************************************************************************)
(* Auxiliary definitions of the properties.                                *)
(***************************************************************************)
\* the slices of s that iterations ii, ii + 1, ... append, given start = st
RECURSIVE CutsFrom(_, _, _)
CutsFrom(s, st, ii) ==
    IF ii >= Len(s) THEN <<>>
    ELSE IterCuts(s, st, ii) \o CutsFrom(s, BranchStart(s, st, ii), ii + 1)

\* Cuts(s)[k + 1] = <<a, b>>: tokens[k] is made of the characters a .. b - 1
Cuts(s) == CutsFrom(s, 0, 0)

RECURSIVE StartAt(_, _)
StartAt(s, ii) == IF ii = 0 THEN 0 ELSE BranchStart(s, StartAt(s, ii - 1), ii - 1)

\* len(tokens) when character p is visited
RECURSIVE CurrentIndex(_, _)
CurrentIndex(s, p) ==
    IF p = 0 THEN 0
    ELSE CurrentIndex(s, p - 1) + Len(IterCuts(s, StartAt(s, p - 1), p - 1))

Range(l) == {l[n] : n \in 1..Len(l)}

\* " ".join(toks)
RECURSIVE Join(_)
Join(toks) ==
    IF toks = <<>> THEN <<>>
    ELSE IF Len(toks) = 1 THEN toks[1]
    ELSE toks[1] \o <<" ">> \o Join(Tail(toks))

NotSpace(c) == c # " "
RemoveSpaces(s) == SelectSeq(s, NotSpace)

Delimiters == {" "} \cup breakers \cup quotes

\* an apostrophe met while the pending span is empty
ApostropheAfterDelimiter(s) ==
    \E n \in 1..Len(s) : s[n] = "'" /\ (n = 1 \/ s[n - 1] \in Delimiters)

\* a final character that leaves the pending span empty and is no ending
DelimiterAtEnd(s) == Len(s) > 0 /\ s[Len(s)] \in Delimiters \ endings

\* the stepwise construction and the function agree
\* the stepwise construction and the function agree
StepwiseAgrees ==
    pc = "done" =>
        [hit_id |-> hit_id, sentence |-> sentence, offset |-> offset,
         target_chars |-> target_chars, annotators |-> annotators,
         tokens |-> tokens, target |-> target, label |-> label,
         difficult |-> difficult] = Instance(row, test)

(***************************************************************************)
(* Properties of Instance (specification Spec).                            *)
(***************************************************************************)
\* C1: the target of every Instance built is strictly increasing (hence
\* without duplicates) and each of its values is an index of tokens.
TargetIncreasingAndValid ==
    pc = "done" =>
        /\ \A n \in 1..Len(target) - 1 : target[n] < target[n + 1]
        /\ \A n \in 1..Len(target) : 0 <= target[n] /\ target[n] < Len(tokens)

TargetHasTwo == pc = "done" /\ Len(target) >= 2 /\ offset[1] < 0

\* C2: for 0 <= start <= end <= len(sentence), k is in target exactly when
\* the characters that make up tokens[k] meet [start, end).
TargetIsOverlap ==
    (pc = "done" /\ 0 <= offset[1] /\ offset[1] <= offset[2]
                 /\ offset[2] <= Len(sentence)) =>
        \A k \in 0..Len(tokens) - 1 :
            k \in Range(target) <=>
                \E j \in Cuts(sentence)[k + 1][1] .. Cuts(sentence)[k + 1][2] - 1 :
                    offset[1] <= j /\ j < offset[2]

\* C3, the step: the iteration that meets an apostrophe appends the pending
\* text as the next token and leaves start at the apostrophe.
ApostropheStep ==
    (pc = "tokenize" /\ i < Len(sentence) /\ sentence[i + 1] = "'") =>
        /\ SubSeq(tokens', 1, Len(tokens) + 1)
              = Append(tokens, lower(Slice(sentence, start, i)))
        /\ start' = i
        /\ sentence[start' + 1] = "'"

\* C3, the outcome: an apostrophe is only ever the first character of a
\* token, and "The cat's toy." with offset [4, 9) gives the stated Instance.
ApostropheFirst ==
    /\ \A n \in 1..Len(tokens) : \A m \in 2..Len(tokens[n]) : tokens[n][m] # "'"
    /\ (pc = "done" /\ row = CatRow /\ ~test) =>
          /\ tokens = << <<"t", "h", "e">>, <<"c", "a", "t">>, <<"'", "s">>,
                         <<"t", "o", "y">>, <<".">> >>
          /\ target = <<1, 2>>
          /\ label[1] = 1

OffsetWithinSentence ==
    pc = "done" => offset[1] <= offset[2] /\ offset[2] <= Len(sentence)

\* C8 as stated: the finished tokens list never holds the empty string.
NoEmptyToken == pc = "done" => \A n \in 1..Len(tokens) : tokens[n] # <<>>

\* C8 amended: the finished tokens list holds the empty string exactly when
\* an apostrophe is met with an empty pending span or the trailing flush
\* follows a final delimiter that is no sentence-ending mark.
EmptyTokenOnlyFromApostropheOrTail ==
    pc = "done" =>
        ((\E n \in 1..Len(tokens) : tokens[n] = <<>>)
            <=> (ApostropheAfterDelimiter(sentence) \/ DelimiterAtEnd(sentence)))

EmptyTokenBuilt ==
    /\ pc = "done"
    /\ \E n \in 1..Len(tokens) : tokens[n] = <<>>
    /\ \E n \in 1..Len(sentence) - 1 :
          sentence[n] \in Delimiters /\ sentence[n + 1] \in Delimiters

\* C9 as stated: a span of length zero at a valid position puts the index
\* current at that position into target.
ZeroSpanResolves ==
    (pc = "done" /\ offset[1] = offset[2]
                 /\ 0 <= offset[1] /\ offset[1] < Len(sentence)) =>
        /\ target # <<>>
        /\ CurrentIndex(sentence, offset[1]) \in Range(target)

\* C9 amended: a span of length zero leaves target empty; a span of
\* length one at a valid position gives exactly the index current there.
ZeroSpanIsEmpty ==
    /\ (pc = "done" /\ offset[1] = offset[2]) => target = <<>>
    /\ (pc = "done" /\ offset[2] = offset[1] + 1
                    /\ 0 <= offset[1] /\ offset[1] < Len(sentence)) =>
          target = <<CurrentIndex(sentence, offset[1])>>

ZeroSpanBuilt ==
    /\ pc = "done" /\ offset[1] = offset[2]
    /\ 0 < offset[1] /\ offset[1] < Len(sentence)
    /\ Len(tokens) >= 2

\* C10: the tokens joined by single spaces, spaces removed, are the
\* lowercased sentence, spaces removed.
RoundTrip ==
    pc = "done" => RemoveSpaces(Join(tokens)) = RemoveSpaces(lower(sentence))

(***************************************************************************)
(* Properties of Data (specification SpecLoad).                            *)
(***************************************************************************)
FieldCount == IF is_test THEN 7 ELSE 11

\* C4: the Instances of a dataset are built only after each of its lines
\* has passed the field count check, and a failed check leaves instances
\* without any Instance of that dataset.
ValidationBeforeConstruction ==
    /\ lpc = "create" => \A n \in 1..Len(lines) : Len(lines[n]) = FieldCount
    /\ lpc = "check" =>
          /\ Len(instances) = file_base
          /\ \A n \in 1..cur : Len(lines[n]) = FieldCount
    /\ lpc = "AssertionError" =>
          /\ Len(instances) = file_base
          /\ Len(lines[cur + 1]) # FieldCount

LateLineRejected ==
    /\ lpc = "AssertionError" /\ cur >= 1
    /\ InitError(lines[1], is_test) = ""

\* C5 as stated: a load_data call that fails leaves instances, y and
\* y_prob as they were before the call.
FailedLoadLeavesNothing ==
    lpc \in Errors =>
        instances = instances0 /\ y = y0 /\ y_prob = y_prob0

\* C5 amended: a load_data call that fails leaves y and y_prob as they
\* were before the call, and instances as before the call followed by the
\* Instances of the earlier datasets and of the lines before the failing one.
FailedLoadKeepsPrefix ==
    lpc \in Errors =>
        /\ y = y0 /\ y_prob = y_prob0
        /\ Len(instances0) <= file_base
        /\ SubSeq(instances, 1, Len(instances0)) = instances0
        /\ Len(instances) =
              IF lpc = "AssertionError" THEN file_base ELSE file_base + cur
        /\ lpc # "AssertionError" =>
              \A n \in 1..cur :
                  instances[file_base + n] = Instance(lines[n], is_test)

PartialLoadKept ==
    /\ lpc \in {"AssertionError", "ValueError"}
    /\ calls = 2
    /\ Len(instances0) >= 1
    /\ Len(instances) > Len(instances0)

\* C6: after the constructor and after every load_data call that returns,
\* y and y_prob of a non-test Data are as long as instances and hold the
\* two components of each instance's label.
LabelsParallel ==
    (lpc = "returned" /\ ~is_test) =>
        /\ Len(y) = Len(instances)
        /\ Len(y_prob) = Len(instances)
        /\ \A n \in 1..Len(instances) :
              y[n] = instances[n].label[1] /\ y_prob[n] = instances[n].label[2]

SecondLoadReturned ==
    /\ lpc = "returned" /\ ~is_test /\ calls = 2
    /\ Len(instances0) >= 1
    /\ Len(instances) > Len(instances0)
    /\ y[1] # y[Len(y)]

====
